---- MODULE Spec2Model ----
(***************************************************************************)
(* A model of src/inventory.py: the Product classes (Electronics, Grocery, *)
(* Clothing), the Inventory store with its stock operations and its JSON   *)
(* persistence, and the menu loop of main().                               *)
(*                                                                         *)
(* A product is a record of its attributes plus `class`, the name of its   *)
(* Python class.  Inventory._products, a dict keyed by _product_id that    *)
(* keeps insertion order, is the sequence of its values in that order;     *)
(* every key equals the _product_id of its value (lines 80 and 154 are the *)
(* only insertions), so the keys are not stored separately.                *)
(*                                                                         *)
(* Numeric attributes are integers.  Text attributes are strings; the      *)
(* string NotAString stands for a JSON value that is no string (an array). *)
(***************************************************************************)
EXTENDS Integers, Sequences, FiniteSets, TLC

VARIABLES
  products,  \* Inventory._products
  file,      \* what the file named to save_to_file / load_from_file holds
  saved,     \* history: the store as save_to_file last wrote it to `file`
  lastOp,    \* the operation (or menu choice) performed last, with its arguments
  err,       \* the exception the last operation raised ("none" if none)
  pc,        \* main(): "menu" at the top of the while loop, "exited" after break,
             \* "crashed" when an exception left main()
  out        \* main(): the last line printed while handling a choice

vars == <<products, file, saved, lastOp, err, pc, out>>

---------------------------------------------------------------------------
(* Bounds of the model. *)

\* Quantities in stock, and the amounts sold and restocked, range over -1..MaxQty.
MaxQty == 2
\* The clock's time of day ranges over 0..MaxTime; 0 is 00:00:00.000000.
MaxTime == 1

Quantities == -1 .. MaxQty
ProductIds == {"p1", "p2"}

---------------------------------------------------------------------------
(* Product and its subclasses. *)

Electronics(product_id, name, price, quantity, warranty_years, brand) ==
  [class |-> "Electronics", _product_id |-> product_id, _name |-> name,
   _price |-> price, _quantity_in_stock |-> quantity,
   warranty_years |-> warranty_years, brand |-> brand]

Grocery(product_id, name, price, quantity, expiry_date) ==
  [class |-> "Grocery", _product_id |-> product_id, _name |-> name,
   _price |-> price, _quantity_in_stock |-> quantity,
   expiry_date |-> expiry_date]

Clothing(product_id, name, price, quantity, size, material) ==
  [class |-> "Clothing", _product_id |-> product_id, _name |-> name,
   _price |-> price, _quantity_in_stock |-> quantity,
   size |-> size, material |-> material]

\* Product.restock: no check of the amount's sign.
restock(p, amount) ==
  [p EXCEPT !._quantity_in_stock = p._quantity_in_stock + amount]

\* A faulty sell: it refuses the sale of exactly the stock (>= for >).
sell_at_least(p, quantity) ==
  IF quantity >= p._quantity_in_stock
    THEN [product |-> p, err |-> "OutOfStockError"]
    ELSE [product |-> [p EXCEPT !._quantity_in_stock = p._quantity_in_stock - quantity],
          err |-> "none"]

\* Product.sell: the product after the call and the exception raised.
sell(p, quantity) ==
  IF quantity > p._quantity_in_stock
    THEN [product |-> p, err |-> "OutOfStockError"]
    ELSE [product |-> [p EXCEPT !._quantity_in_stock = p._quantity_in_stock - quantity],
          err |-> "none"]

\* A faulty get_total_value: + for *.
get_total_value_sum(p) == p._price + p._quantity_in_stock

\* Product.get_total_value
get_total_value(p) == p._price * p._quantity_in_stock

(* Dates and the clock.  A datetime is [date, time]: the day's number and  *)
(* the time of day.  strptime(s, "%Y-%m-%d") reads the strings of          *)
(* DateTable, the i-th as midnight of day i, and raises ValueError on any  *)
(* other string.                                                           *)
DateTable == <<"2024-03-01", "2024-03-02">>

Days == DOMAIN DateTable

Datetimes == [date : Days, time : 0 .. MaxTime]

IsDate(s) == \E i \in Days : DateTable[i] = s

strptime(s) == [date |-> CHOOSE i \in Days : DateTable[i] = s, time |-> 0]

\* datetime.__lt__
Before(a, b) == a.date < b.date \/ (a.date = b.date /\ a.time < b.time)

\* A faulty is_expired: it compares the dates and not the times of day.
is_expired_by_date(p, now) == strptime(p.expiry_date).date < now.date

\* Grocery.is_expired, for a parsable expiry_date, with datetime.now() = now.
is_expired(p, now) == Before(strptime(p.expiry_date), now)

---------------------------------------------------------------------------
(* The dict Inventory._products. *)

Keys(store) == {store[i]._product_id : i \in DOMAIN store}

\* product_id in self._products
Has(store, product_id) == product_id \in Keys(store)

IndexOf(store, product_id) ==
  CHOOSE i \in DOMAIN store : store[i]._product_id = product_id

\* self._products[product_id]
Get(store, product_id) == store[IndexOf(store, product_id)]

\* self._products[p._product_id] = p: a held key keeps its place, a new one comes last.
Put(store, p) ==
  IF Has(store, p._product_id)
    THEN [store EXCEPT ![IndexOf(store, p._product_id)] = p]
    ELSE Append(store, p)

\* del self._products[product_id]
Del(store, product_id) ==
  SelectSeq(store, LAMBDA p : p._product_id # product_id)

---------------------------------------------------------------------------
(* Inventory's stock operations: the store after the call, the exception   *)
(* raised and (total_inventory_value) the value returned.                  *)

\* A faulty add_product: no check for a held id.
add_product_overwrite(store, p) == [products |-> Put(store, p), err |-> "none"]

add_product(store, p) ==
  IF Has(store, p._product_id)
    THEN [products |-> store, err |-> "DuplicateProductError"]
    ELSE [products |-> Put(store, p), err |-> "none"]

\* A faulty remove_product: it deletes the oldest entry, whatever the id.
remove_product_first(store, product_id) ==
  [products |-> IF store = <<>> THEN store ELSE Tail(store), err |-> "none"]

remove_product(store, product_id) ==
  [products |-> IF Has(store, product_id) THEN Del(store, product_id) ELSE store,
   err |-> "none"]

sell_product(store, product_id, quantity) ==
  IF Has(store, product_id)
    THEN LET r == sell(Get(store, product_id), quantity)
         IN  [products |-> Put(store, r.product), err |-> r.err]
    ELSE [products |-> store, err |-> "none"]

restock_product(store, product_id, quantity) ==
  IF Has(store, product_id)
    THEN [products |-> Put(store, restock(Get(store, product_id), quantity)),
          err |-> "none"]
    ELSE [products |-> store, err |-> "none"]

\* sum(p.get_total_value() for p in self._products.values())
RECURSIVE SumValues(_)
SumValues(store) ==
  IF store = <<>> THEN 0
  ELSE get_total_value(Head(store)) + SumValues(Tail(store))

total_inventory_value(store) == SumValues(store)

(* remove_expired_products: the comprehension of line 115 calls is_expired *)
(* on every Grocery, in the dict's order, before anything is deleted; a    *)
(* Grocery whose expiry_date strptime cannot read makes it raise           *)
(* ValueError, and then nothing is deleted.                                *)
to_remove(store, now) ==
  {store[i]._product_id : i \in {j \in DOMAIN store :
      store[j].class = "Grocery" /\ is_expired(store[j], now)}}

remove_expired_products(store, now) ==
  IF \E i \in DOMAIN store :
       store[i].class = "Grocery" /\ ~IsDate(store[i].expiry_date)
    THEN [products |-> store, err |-> "ValueError"]
    ELSE [products |-> SelectSeq(store,
                         LAMBDA p : p._product_id \notin to_remove(store, now)),
          err |-> "none"]

---------------------------------------------------------------------------
(* JSON.  A JSON value is a record with its kind in `json`: an object with *)
(* its `members` (a record), an array with its `items`, or a string,       *)
(* number or null whose content no operation reads.  A file is absent, or  *)
(* holds a text json.load cannot parse, or holds the text of a JSON value; *)
(* json.dump followed by json.load returns the value dumped (strings,      *)
(* integers, lists and dicts with string keys have exact JSON forms), so a *)
(* parsable file is modelled by the value itself.                          *)

NoFile == [exists |-> FALSE]
BadText == [exists |-> TRUE, parses |-> FALSE]
TextOf(value) == [exists |-> TRUE, parses |-> TRUE, value |-> value]

JObject(members) == [json |-> "object", members |-> members]
JArray(items) == [json |-> "array", items |-> items]
JString == [json |-> "string"]
JNumber == [json |-> "number"]

\* A JSON value that is no string, where the program expects a string.
NotAString == "[\"x\"]"

\* hash(product_id) raises TypeError for a list.
Unhashable(v) == v = NotAString

(* What `for item in data` iterates over: the items of an array, the keys  *)
(* (strings) of an object; a number is not iterable (TypeError).           *)
Iterable(data) == data.json \in {"array", "object"}

RECURSIVE KeyStrings(_)
KeyStrings(keys) ==
  IF keys = {} THEN <<>>
  ELSE LET k == CHOOSE k \in keys : TRUE
       IN  <<JString>> \o KeyStrings(keys \ {k})

ItemsOf(data) ==
  IF data.json = "array" THEN data.items
  ELSE KeyStrings(DOMAIN data.members)

(* Lines 124-152 for one item: the product built, or the exception raised. *)
(* item.pop('type') raises AttributeError on a value with no pop method (a *)
(* string, a number), TypeError on a list, KeyError on a dict without the  *)
(* key; item["field"] raises KeyError when the field is missing.  Values   *)
(* are passed to the constructors as they come.                            *)
Raises(e) == [err |-> e]
Built(p) == [err |-> "none", product |-> p]

BuildProduct(item) ==
  IF item.json \notin {"object", "array"} THEN Raises("AttributeError")
  ELSE IF item.json = "array" THEN Raises("TypeError")
  ELSE LET m == item.members
           has(fields) == fields \subseteq DOMAIN m
       IN
    IF ~has({"type"}) THEN Raises("KeyError")
    ELSE IF m.type = "Electronics" THEN
      IF has({"product_id", "name", "price", "quantity_in_stock",
              "warranty_years", "brand"})
        THEN Built(Electronics(m.product_id, m.name, m.price,
                               m.quantity_in_stock, m.warranty_years, m.brand))
        ELSE Raises("KeyError")
    ELSE IF m.type = "Grocery" THEN
      IF has({"product_id", "name", "price", "quantity_in_stock", "expiry_date"})
        THEN Built(Grocery(m.product_id, m.name, m.price,
                           m.quantity_in_stock, m.expiry_date))
        ELSE Raises("KeyError")
    ELSE IF m.type = "Clothing" THEN
      IF has({"product_id", "name", "price", "quantity_in_stock",
              "size", "material"})
        THEN Built(Clothing(m.product_id, m.name, m.price,
                            m.quantity_in_stock, m.size, m.material))
        ELSE Raises("KeyError")
    ELSE Raises("InvalidProductDataError")

\* Lines 124-154 for one item: line 154 hashes the product's id.
LoadItem(store, item) ==
  LET b == BuildProduct(item) IN
  IF b.err # "none" THEN [products |-> store, err |-> b.err]
  ELSE IF Unhashable(b.product._product_id)
    THEN [products |-> store, err |-> "TypeError"]
  ELSE [products |-> Put(store, b.product), err |-> "none"]

\* The for loop of line 123: it ends at the first item that raises.
RECURSIVE LoadItems(_, _)
LoadItems(store, items) ==
  IF items = <<>> THEN [products |-> store, err |-> "none"]
  ELSE LET r == LoadItem(store, Head(items)) IN
       IF r.err # "none" THEN r ELSE LoadItems(r.products, Tail(items))

\* Line 156: the exceptions the except clause turns into InvalidProductDataError.
Caught(e) ==
  IF e \in {"JSONDecodeError", "KeyError", "TypeError"}
    THEN "InvalidProductDataError" ELSE e

LoadBody(store, f) ==
  IF ~f.exists THEN [products |-> store, err |-> "FileNotFoundError"]
  ELSE IF ~f.parses THEN [products |-> store, err |-> "JSONDecodeError"]
  ELSE IF ~Iterable(f.value) THEN [products |-> store, err |-> "TypeError"]
  ELSE LoadItems(store, ItemsOf(f.value))

\* A faulty load_from_file: a load that raises leaves the store as it was.
load_from_file_atomic(store, f) ==
  LET r == LoadBody(store, f) IN
  [products |-> IF r.err = "none" THEN r.products ELSE store, err |-> Caught(r.err)]

\* Lines 118-157.
load_from_file(store, f) ==
  LET r == LoadBody(store, f) IN [products |-> r.products, err |-> Caught(r.err)]

\* A faulty to_item: the Grocery branch is missing.
to_item_no_expiry(p) ==
  LET base == [product_id |-> p._product_id, name |-> p._name, price |-> p._price,
               quantity_in_stock |-> p._quantity_in_stock, type |-> p.class]
  IN  JObject(
        IF p.class = "Electronics"
          THEN base @@ [warranty_years |-> p.warranty_years, brand |-> p.brand]
        ELSE IF p.class = "Clothing"
          THEN base @@ [size |-> p.size, material |-> p.material]
        ELSE base)

\* Lines 163-178: the record save_to_file writes for one product.
to_item(p) ==
  LET base == [product_id |-> p._product_id, name |-> p._name, price |-> p._price,
               quantity_in_stock |-> p._quantity_in_stock, type |-> p.class]
  IN  JObject(
        IF p.class = "Electronics"
          THEN base @@ [warranty_years |-> p.warranty_years, brand |-> p.brand]
        ELSE IF p.class = "Grocery"
          THEN base @@ [expiry_date |-> p.expiry_date]
        ELSE IF p.class = "Clothing"
          THEN base @@ [size |-> p.size, material |-> p.material]
        ELSE base)

\* Lines 161-181: the file's content after save_to_file.
save_to_file(store) == TextOf(JArray([i \in DOMAIN store |-> to_item(store[i])]))

---------------------------------------------------------------------------
(* The calls a client of Inventory makes, one action per method.           *)

NotSaved == [by_save |-> FALSE]
SavedFrom(store) == [by_save |-> TRUE, store |-> store]

Init ==
  /\ products = <<>>
  /\ file = NoFile
  /\ saved = NotSaved
  /\ lastOp = [op |-> "Inventory"]
  /\ err = "none"
  /\ pc = "menu"
  /\ out = [kind |-> "none"]

\* Inventory(): a fresh, empty store.
NewInventory ==
  /\ products' = <<>>
  /\ lastOp' = [op |-> "Inventory"]
  /\ err' = "none"
  /\ UNCHANGED <<file, saved, pc, out>>

Returns(r) ==
  /\ products' = r.products
  /\ err' = r.err
  /\ UNCHANGED <<file, saved, pc, out>>

AddProduct(p) ==
  /\ lastOp' = [op |-> "add_product", product |-> p]
  /\ Returns(add_product(products, p))

RemoveProduct(id) ==
  /\ lastOp' = [op |-> "remove_product", product_id |-> id]
  /\ Returns(remove_product(products, id))

\* The stock the call would leave is kept within Quantities.
InRange(r) == \A i \in DOMAIN r.products : r.products[i]._quantity_in_stock \in Quantities

SellProduct(id, q) ==
  /\ InRange(sell_product(products, id, q))
  /\ lastOp' = [op |-> "sell_product", product_id |-> id, quantity |-> q]
  /\ Returns(sell_product(products, id, q))

RestockProduct(id, q) ==
  /\ InRange(restock_product(products, id, q))
  /\ lastOp' = [op |-> "restock_product", product_id |-> id, quantity |-> q]
  /\ Returns(restock_product(products, id, q))

\* lastOp keeps the ids line 115 collected (none when is_expired raised).
RemoveExpiredProducts(now) ==
  LET r == remove_expired_products(products, now) IN
  /\ lastOp' = [op |-> "remove_expired_products", now |-> now,
                to_remove |-> Keys(products) \ Keys(r.products)]
  /\ Returns(r)

TotalInventoryValue ==
  /\ lastOp' = [op |-> "total_inventory_value",
                ret |-> total_inventory_value(products)]
  /\ Returns([products |-> products, err |-> "none"])

\* lastOp keeps whether the store was empty when the call began.
LoadFromFile ==
  /\ lastOp' = [op |-> "load_from_file", fresh |-> products = <<>>]
  /\ Returns(load_from_file(products, file))

SaveToFile ==
  /\ file' = save_to_file(products)
  /\ saved' = SavedFrom(products)
  /\ lastOp' = [op |-> "save_to_file"]
  /\ err' = "none"
  /\ UNCHANGED <<products, pc, out>>

\* Something other than this program writes the file ...
WriteFile(content) ==
  /\ file' = content
  /\ saved' = NotSaved
  /\ lastOp' = [op |-> "write_file"]
  /\ err' = "none"
  /\ UNCHANGED <<products, pc, out>>

\* ... or adds one more item to the array the file holds.
AppendItem(item, maxItems) ==
  /\ file.exists /\ file.parses /\ file.value.json = "array"
  /\ Len(file.value.items) < maxItems
  /\ WriteFile(TextOf(JArray(Append(file.value.items, item))))

---------------------------------------------------------------------------
(* main(): one action per pass of the while loop, a menu choice and the    *)
(* lines typed after it.  A handler gives the store and the file it        *)
(* leaves, the exception raised inside the try block and the last line     *)
(* printed.                                                                *)

\* str.lower and str.strip, on the strings typed in this model.
lower(s) ==
  CASE s = "Electronics" -> "electronics"
    [] s = "Grocery" -> "grocery"
    [] s = "GROCERY" -> "grocery"
    [] s = "Clothing" -> "clothing"
    [] s = "Milk" -> "milk"
    [] s = "TV" -> "tv"
    [] s = "Shirt" -> "shirt"
    [] OTHER -> s

strip(s) ==
  CASE s = " Grocery " -> "Grocery"
    [] OTHER -> s

\* a in b, for lowercase strings: a is b, or a proper substring listed here.
contains(a, b) == a = b \/ <<a, b>> \in {<<"il", "milk">>, <<"t", "tv">>, <<"t", "shirt">>}

\* int(s) and float(s): the numerals read, anything else raising ValueError.
IntTable == {<<"-1", -1>>, <<"1", 1>>, <<"2", 2>>}
FloatTable == {<<"3", 3>>, <<"500", 500>>}
IsInt(s) == \E t \in IntTable : t[1] = s
int(s) == (CHOOSE t \in IntTable : t[1] = s)[2]
IsFloat(s) == \E t \in FloatTable : t[1] = s
float(s) == (CHOOSE t \in FloatTable : t[1] = s)[2]

Text(t) == [kind |-> "text", text |-> t]
\* print("Error:", e)
ErrorLine(e) == [kind |-> "error", error |-> e]

\* __str__: the attributes shown; a Grocery's status comes from is_expired.
Shown(p, now) ==
  IF p.class = "Electronics"
    THEN [kind |-> "Electronics", name |-> p._name, brand |-> p.brand,
          price |-> p._price, in_stock |-> p._quantity_in_stock]
  ELSE IF p.class = "Grocery"
    THEN [kind |-> "Grocery", name |-> p._name, price |-> p._price,
          in_stock |-> p._quantity_in_stock,
          status |-> IF is_expired(p, now) THEN "Expired" ELSE "Fresh"]
  ELSE [kind |-> "Clothing", name |-> p._name, size |-> p.size,
        material |-> p.material, price |-> p._price,
        in_stock |-> p._quantity_in_stock]

StrRaises(p) == p.class = "Grocery" /\ ~IsDate(p.expiry_date)

Handled(store, f, sv, e, line) ==
  [products |-> store, file |-> f, saved |-> sv, err |-> e, out |-> line]

\* for p in results: print(p)
PrintAll(results, now, before) ==
  IF \E i \in DOMAIN results : StrRaises(results[i])
    THEN Handled(products, file, saved, "ValueError", before)
  ELSE IF results = <<>> THEN Handled(products, file, saved, "none", before)
  ELSE Handled(products, file, saved, "none", Shown(results[Len(results)], now))

search_by_name(store, name) ==
  SelectSeq(store, LAMBDA p : contains(lower(name), lower(p._name)))

search_by_type(store, product_type) ==
  SelectSeq(store, LAMBDA p : lower(p.class) = lower(product_type))

\* Lines 205-226.
Choice1(in) ==
  LET ptype == lower(strip(in.ptype))
      fails(e) == Handled(products, file, saved, e, out)
      adds(p) ==
        LET r == add_product(products, p) IN
        Handled(r.products, file, saved, r.err,
                IF r.err = "none" THEN Text("Product added successfully.") ELSE out)
  IN
  IF ~IsFloat(in.price) \/ ~IsInt(in.qty) THEN fails("ValueError")
  ELSE IF ptype = "electronics" THEN
    IF ~IsInt(in.warranty) THEN fails("ValueError")
    ELSE adds(Electronics(in.pid, in.name, float(in.price), int(in.qty),
                          int(in.warranty), in.brand))
  ELSE IF ptype = "grocery" THEN
    adds(Grocery(in.pid, in.name, float(in.price), int(in.qty), in.expiry))
  ELSE IF ptype = "clothing" THEN
    adds(Clothing(in.pid, in.name, float(in.price), int(in.qty), in.size, in.material))
  ELSE Handled(products, file, saved, "none", Text("Invalid product type!"))

\* Lines 228-232.
Choice2(in) ==
  IF ~IsInt(in.qty) THEN Handled(products, file, saved, "ValueError", out)
  ELSE LET r == sell_product(products, in.pid, int(in.qty)) IN
       Handled(r.products, file, saved, r.err,
               IF r.err = "none" THEN Text("Product sold.") ELSE out)

\* Lines 234-245.
Choice3(in) ==
  LET results == IF in.search = "name" THEN search_by_name(products, in.keyword)
                 ELSE search_by_type(products, in.keyword)
  IN  IF results = <<>>
        THEN Handled(products, file, saved, "none", Text("No products found."))
        ELSE PrintAll(results, in.now, out)

\* Lines 247-249.
Choice4(in) == PrintAll(products, in.now, out)

\* Lines 251-255.
Choice5(in) ==
  IF ~IsInt(in.qty) THEN Handled(products, file, saved, "ValueError", out)
  ELSE LET r == restock_product(products, in.pid, int(in.qty)) IN
       Handled(r.products, file, saved, r.err, Text("Product restocked."))

\* Lines 257-259.
Choice6(in) ==
  LET r == remove_expired_products(products, in.now) IN
  Handled(r.products, file, saved, r.err,
          IF r.err = "none" THEN Text("Expired groceries removed.") ELSE out)

\* Lines 261-263.
Choice7(in) ==
  Handled(products, file, saved, "none",
          [kind |-> "total", total |-> total_inventory_value(products)])

\* Lines 265-268.
Choice8(in) ==
  Handled(products, save_to_file(products), SavedFrom(products), "none",
          Text("Inventory saved."))

\* Lines 270-273.
Choice9(in) ==
  LET r == load_from_file(products, file) IN
  Handled(r.products, file, saved, r.err,
          IF r.err = "none" THEN Text("Inventory loaded.") ELSE out)

\* Lines 275-277.
Choice0(in) == Handled(products, file, saved, "none", Text("Exiting..."))

\* Lines 279-280.
ChoiceOther(in) == Handled(products, file, saved, "none", Text("Invalid choice."))

\* A faulty except clause: it names the three application errors only.
CatchesApplicationErrors(e) ==
  e \in {"OutOfStockError", "DuplicateProductError", "InvalidProductDataError"}

\* Line 282, except Exception: every exception raised here derives from Exception.
Catches(e) ==
  e \in {"OutOfStockError", "DuplicateProductError", "InvalidProductDataError",
         "ValueError", "TypeError", "KeyError", "AttributeError",
         "FileNotFoundError", "JSONDecodeError"}

(* One pass of the loop, lines 189-283, for the choice typed and the       *)
(* outcome h of its branch of the if/elif chain: a normal end goes back to *)
(* the menu (choice 0 breaks out of the loop), an exception the except     *)
(* clause catches is printed and the loop goes on, any other exception     *)
(* leaves main().                                                          *)
Pass(choice, in, h) ==
  /\ pc = "menu"
  /\ InRange(h)
  /\ lastOp' = [op |-> "choice", choice |-> choice, in |-> in]
  /\ products' = h.products
  /\ file' = h.file
  /\ saved' = h.saved
  /\ err' = h.err
  /\ IF h.err = "none"
       THEN out' = h.out /\ pc' = IF choice = "0" THEN "exited" ELSE "menu"
     ELSE IF Catches(h.err)
       THEN out' = ErrorLine(h.err) /\ pc' = "menu"
     ELSE out' = h.out /\ pc' = "crashed"

\* The menu's entries, each with what is typed after it.
MenuAdd(in) == Pass("1", in, Choice1(in))
MenuSell(in) == Pass("2", in, Choice2(in))
MenuSearch(in) == Pass("3", in, Choice3(in))
MenuList(in) == Pass("4", in, Choice4(in))
MenuRestock(in) == Pass("5", in, Choice5(in))
MenuRemoveExpired(in) == Pass("6", in, Choice6(in))
MenuTotal(in) == Pass("7", in, Choice7(in))
MenuSave(in) == Pass("8", in, Choice8(in))
MenuLoad(in) == Pass("9", in, Choice9(in))
MenuExit(in) == Pass("0", in, Choice0(in))
\* Anything else typed at the menu: the else branch.
MenuOther(choice, in) ==
  /\ choice \notin {"0", "1", "2", "3", "4", "5", "6", "7", "8", "9"}
  /\ Pass(choice, in, ChoiceOther(in))

---------------------------------------------------------------------------
(* Inputs. *)

\* The longest array written to the file from outside.
MaxItems == 2

ExpiryInputs == {DateTable[i] : i \in Days} \cup {"tomorrow"}

Catalogue(ids, quantities, expiries) ==
  UNION {
    {Electronics(id, "TV", 500, q, 2, "Acme"),
     Clothing(id, "Shirt", 20, q, "M", "cotton")}
    \cup {Grocery(id, "Milk", 3, q, d) : d \in expiries}
    : <<id, q>> \in ids \X quantities }

StockCatalogue == Catalogue(ProductIds, Quantities, {DateTable[1]})
ExpiryCatalogue == Catalogue(ProductIds, {1}, ExpiryInputs)
FileCatalogue == Catalogue(ProductIds, {1}, {DateTable[1]})

\* An object with one member less.
Without(item, key) ==
  JObject([k \in DOMAIN item.members \ {key} |-> item.members[k]])

\* An object with one member's value replaced.
With(item, key, value) ==
  JObject([item.members EXCEPT ![key] = value])

TV(id) == to_item(Electronics(id, "TV", 500, 1, 2, "Acme"))
Milk(id) == to_item(Grocery(id, "Milk", 3, 2, DateTable[2]))
Shirt(id) == to_item(Clothing(id, "Shirt", 20, 1, "M", "cotton"))

\* Records in the shape save_to_file writes.
GoodItems == {TV("p1"), Milk("p1"), Shirt("p2")}

\* Records that are not: see Malformed below.
BadItems ==
  { Without(Milk("p2"), "type"),
    With(Shirt("p2"), "type", "Toy"),
    Without(TV("p2"), "brand"),
    With(TV("p2"), "brand", NotAString),
    With(Milk("p2"), "product_id", NotAString),
    JString,
    JArray(<<>>) }

FileItems == GoodItems \cup BadItems

\* What the file holds when written from outside, before items are added.
FileContents ==
  { BadText, TextOf(JNumber), TextOf(JObject([p1 |-> JNumber])), TextOf(JArray(<<>>)) }

\* A file of two records: the first is merged, the second lacks its brand.
StockFile == TextOf(JArray(<<Milk("p1"), Without(TV("p2"), "brand")>>))

(* Spec: a client calling the stock operations in any order, and loading   *)
(* a file written elsewhere.                                               *)
Next ==
  \/ \E p \in StockCatalogue : AddProduct(p)
  \/ \E id \in ProductIds : RemoveProduct(id)
  \/ \E id \in ProductIds, q \in Quantities : SellProduct(id, q)
  \/ \E id \in ProductIds, q \in Quantities : RestockProduct(id, q)
  \/ \E now \in Datetimes : RemoveExpiredProducts(now)
  \/ TotalInventoryValue
  \/ WriteFile(StockFile)
  \/ LoadFromFile

Spec == Init /\ [][Next]_vars

(* SpecExpiry: groceries of every expiry date, swept at every time.        *)
NextExpiry ==
  \/ \E p \in ExpiryCatalogue : AddProduct(p)
  \/ \E id \in ProductIds : RemoveProduct(id)
  \/ \E now \in Datetimes : RemoveExpiredProducts(now)

SpecExpiry == Init /\ [][NextExpiry]_vars

(* SpecFile: stores saved and loaded, and files written from outside.      *)
NextFile ==
  \/ \E p \in FileCatalogue : AddProduct(p)
  \/ NewInventory
  \/ SaveToFile
  \/ \E content \in FileContents : WriteFile(content)
  \/ \E item \in FileItems : AppendItem(item, MaxItems)
  \/ LoadFromFile

SpecFile == Init /\ [][NextFile]_vars

(* SpecMain: a user at the menu of main(), and a file that cannot be       *)
(* parsed put in place from outside.                                       *)
NoInput == [none |-> TRUE]

\* What is typed after choice 1: every product type with readable numbers,
\* and one entry with each number unreadable or the date no date.
Typed(ptype) ==
  [ptype |-> ptype, pid |-> "p1", name |-> "Milk", price |-> "3", qty |-> "1",
   warranty |-> "2", brand |-> "Acme", expiry |-> DateTable[1],
   size |-> "M", material |-> "cotton"]

AddInputs ==
  {Typed(t) : t \in {"Electronics", " Grocery ", "Clothing", "Toy"}}
  \cup {[Typed("Clothing") EXCEPT !.price = "free"],
        [Typed("Toy") EXCEPT !.qty = "one"],
        [Typed("Electronics") EXCEPT !.warranty = "two"],
        [Typed(" Grocery ") EXCEPT !.expiry = "tomorrow"]}

AmountInputs == [pid : {"p1", "p2"}, qty : {"-1", "1", "2", "some"}]

SearchInputs ==
  [search : {"name", "type"}, keyword : {"il", "GROCERY"}, now : Datetimes]

ClockInputs == [now : Datetimes]

NextMain ==
  \/ \E in \in AddInputs : MenuAdd(in)
  \/ \E in \in AmountInputs : MenuSell(in)
  \/ \E in \in SearchInputs : MenuSearch(in)
  \/ \E in \in ClockInputs : MenuList(in)
  \/ \E in \in AmountInputs : MenuRestock(in)
  \/ \E in \in ClockInputs : MenuRemoveExpired(in)
  \/ MenuTotal(NoInput)
  \/ MenuSave(NoInput)
  \/ MenuLoad(NoInput)
  \/ MenuExit(NoInput)
  \/ \E choice \in {"x", "10", ""} : MenuOther(choice, NoInput)
  \/ WriteFile(BadText)

SpecMain == Init /\ [][NextMain]_vars

---------------------------------------------------------------------------
(* The properties.  An action property [][lastOp'.op = ... => ...]_vars    *)
(* speaks of one call: the unprimed variables are the state before it, the *)
(* primed ones the state after it, lastOp' its name and arguments.         *)

\* The product held under an id, and the stock of it.
Stock(store, id) == Get(store, id)._quantity_in_stock

\* Every entry but the one of `id` is the same in both stores.
OthersUnchanged(before, after, id) ==
  \A k \in Keys(before) \ {id} : Has(after, k) /\ Get(after, k) = Get(before, k)

\* C1: every held product has quantity_in_stock >= 0, in every reachable state.
StockNeverNegative ==
  \A i \in DOMAIN products : products[i]._quantity_in_stock >= 0

(* C2: sell_product(id, q) on a held id with q > quantity_in_stock raises  *)
(* OutOfStockError and leaves the product, the store and the file as they  *)
(* were; with q <= quantity_in_stock (0 and negative q too) it raises      *)
(* nothing and the new stock is the old stock minus q, nothing else of the *)
(* product or the store changing.                                          *)
SellContract ==
  [][(lastOp'.op = "sell_product" /\ Has(products, lastOp'.product_id)) =>
       LET id == lastOp'.product_id
           q == lastOp'.quantity
       IN  /\ file' = file
           /\ IF q > Stock(products, id)
                THEN err' = "OutOfStockError" /\ products' = products
                ELSE /\ err' = "none"
                     /\ Keys(products') = Keys(products)
                     /\ Stock(products', id) = Stock(products, id) - q
                     /\ [Get(products', id) EXCEPT !._quantity_in_stock =
                           Stock(products, id)] = Get(products, id)
                     /\ OthersUnchanged(products, products', id)]_vars

\* C2's case: a sale of more than the stock was refused.
SellRefused ==
  /\ lastOp.op = "sell_product"
  /\ err = "OutOfStockError"
  /\ Has(products, lastOp.product_id)
  /\ lastOp.quantity > Stock(products, lastOp.product_id)

(* C3: add_product(p) with p's id already held raises                      *)
(* DuplicateProductError and leaves the store as it was; with the id not   *)
(* held it raises nothing, p is then held under its id, and no other entry *)
(* changes.                                                                *)
AddContract ==
  [][lastOp'.op = "add_product" =>
       LET p == lastOp'.product
           id == lastOp'.product._product_id
       IN  IF Has(products, id)
             THEN err' = "DuplicateProductError" /\ products' = products
             ELSE /\ err' = "none"
                  /\ Keys(products') = Keys(products) \cup {id}
                  /\ Get(products', id) = p
                  /\ OthersUnchanged(products, products', id)]_vars

\* C3's case: an add under a held id was refused, the holder being another product.
AddRefused ==
  /\ lastOp.op = "add_product"
  /\ err = "DuplicateProductError"
  /\ Has(products, lastOp.product._product_id)
  /\ Get(products, lastOp.product._product_id) # lastOp.product

\* The sum of price * quantity_in_stock over the products held under `ids`.
RECURSIVE ValueOfIds(_, _)
ValueOfIds(store, ids) ==
  IF ids = {} THEN 0
  ELSE LET id == CHOOSE id \in ids : TRUE
       IN  Get(store, id)._price * Stock(store, id) + ValueOfIds(store, ids \ {id})

(* C7: in every reachable state total_inventory_value() returns the sum of *)
(* price * quantity_in_stock over the products held, 0 for an empty store, *)
(* and leaves the store as it was.                                         *)
TotalValueContract ==
  [][lastOp'.op = "total_inventory_value" =>
       /\ products' = products
       /\ err' = "none"
       /\ lastOp'.ret = ValueOfIds(products, Keys(products))
       /\ (products = <<>> => lastOp'.ret = 0)]_vars

\* C7's case: the total of a store of two products of different classes.
TotalOfTwo ==
  /\ lastOp.op = "total_inventory_value"
  /\ Len(products) = 2
  /\ products[1].class # products[2].class
  /\ products[1]._quantity_in_stock > 0
  /\ products[2]._quantity_in_stock > 0
  /\ lastOp.ret = products[1]._price * products[1]._quantity_in_stock
                  + products[2]._price * products[2]._quantity_in_stock

(* C8: sell_product, restock_product and remove_product on an id that is   *)
(* not held raise nothing and leave the store as it was; on a held id they *)
(* change the entry of that id alone: sell and restock nothing but its     *)
(* quantity_in_stock, remove deleting that key and no other.               *)
FrameContract ==
  [][lastOp'.op \in {"sell_product", "restock_product", "remove_product"} =>
       LET id == lastOp'.product_id IN
       IF ~Has(products, id)
         THEN err' = "none" /\ products' = products
         ELSE /\ OthersUnchanged(products, products', id)
              /\ Keys(products') \subseteq Keys(products)
              /\ IF lastOp'.op = "remove_product"
                   THEN Keys(products') = Keys(products) \ {id}
                   ELSE /\ Keys(products') = Keys(products)
                        /\ [Get(products', id) EXCEPT !._quantity_in_stock =
                              Stock(products, id)] = Get(products, id)]_vars

\* C8's case: a sale under an id that is not held, in a store that holds another.
SellAbsent ==
  /\ lastOp.op = "sell_product"
  /\ products # <<>>
  /\ ~Has(products, lastOp.product_id)
  /\ err = "none"

\* A held Grocery whose expiry_date is no YYYY-MM-DD date.
HoldsUnreadableDate(store) ==
  \E i \in DOMAIN store :
    store[i].class = "Grocery" /\ \A d \in Days : DateTable[d] # store[i].expiry_date

\* A Grocery whose expiry_date is a day before the clock's.
ExpiredBeforeToday(p, now) ==
  /\ p.class = "Grocery"
  /\ \E d \in Days : DateTable[d] = p.expiry_date /\ d < now.date

(* C5 as stated: remove_expired_products() removes exactly the Grocery     *)
(* products whose expiry_date is strictly before the current date (one     *)
(* whose expiry_date is the current date is kept) and leaves every other   *)
(* product in the store, unchanged.                                        *)
SweepRemovesBeforeToday ==
  [][lastOp'.op = "remove_expired_products" =>
       products' = SelectSeq(products,
                     LAMBDA p : ~ExpiredBeforeToday(p, lastOp'.now))]_vars

\* A Grocery whose expiry_date, at 00:00:00, is before the clock's date and time.
ExpiredBeforeNow(p, now) ==
  /\ p.class = "Grocery"
  /\ \E d \in Days :
       /\ DateTable[d] = p.expiry_date
       /\ (d < now.date \/ (d = now.date /\ now.time > 0))

(* C5 as amended: remove_expired_products() removes exactly the Grocery    *)
(* products whose expiry_date, taken as 00:00:00 of that day, is strictly  *)
(* before the current date and time: those of an earlier day, and those of *)
(* the current day unless the clock reads exactly midnight; it leaves      *)
(* every other product in the store, unchanged, and raises nothing.  When  *)
(* a held Grocery's expiry_date is no YYYY-MM-DD date it raises ValueError *)
(* and removes nothing.                                                    *)
SweepRemovesBeforeNow ==
  [][lastOp'.op = "remove_expired_products" =>
       IF HoldsUnreadableDate(products)
         THEN err' = "ValueError" /\ products' = products
         ELSE /\ err' = "none"
              /\ products' = SelectSeq(products,
                               LAMBDA p : ~ExpiredBeforeNow(p, lastOp'.now))]_vars

(* C5's case: a sweep on day 1, after midnight, removed a product (which   *)
(* can only be a Grocery expiring on day 1, none expiring earlier) and     *)
(* kept another.                                                           *)
SweptSameDay ==
  /\ lastOp.op = "remove_expired_products"
  /\ err = "none"
  /\ lastOp.now = [date |-> 1, time |-> 1]
  /\ lastOp.to_remove # {}
  /\ products # <<>>

(* C4: save_to_file leaves the saving store as it was, and load_from_file *)
(* of the file it wrote, into a fresh empty store, raises nothing and      *)
(* yields a store of the same product ids, each held by a product of the   *)
(* same class with the same values of all its attributes.                  *)
RoundTrip ==
  [][/\ lastOp'.op = "save_to_file" => products' = products
     /\ (lastOp'.op = "load_from_file" /\ lastOp'.fresh /\ saved.by_save) =>
          /\ err' = "none"
          /\ Len(products') = Len(saved.store)
          /\ Keys(products') = Keys(saved.store)
          /\ \A id \in Keys(saved.store) :
               /\ Get(products', id).class = Get(saved.store, id).class
               /\ Get(products', id) = Get(saved.store, id)]_vars

(* C4's case: a saved store of two products of different classes, one of   *)
(* them a Grocery, has been loaded into an empty store.                    *)
RoundTripDone ==
  /\ lastOp.op = "load_from_file"
  /\ lastOp.fresh
  /\ saved.by_save
  /\ Len(saved.store) = 2
  /\ saved.store[1].class # saved.store[2].class
  /\ \E i \in 1..2 : saved.store[i].class = "Grocery"
  /\ products = saved.store

\* The attributes a record of each type must give, besides the type tag.
BaseFields == {"product_id", "name", "price", "quantity_in_stock"}

VariantFields(type) ==
  IF type = "Electronics" THEN {"warranty_years", "brand"}
  ELSE IF type = "Grocery" THEN {"expiry_date"}
  ELSE {"size", "material"}

TextFields == {"product_id", "name", "brand", "expiry_date", "size", "material"}

Types == {"Electronics", "Grocery", "Clothing"}

(* A malformed record: no object, or one without its type tag, with an     *)
(* unrecognized tag, without a required field, or with a text field whose  *)
(* value is no string.                                                     *)
Malformed(item) ==
  \/ item.json # "object"
  \/ "type" \notin DOMAIN item.members
  \/ item.members.type \notin Types
  \/ ~(BaseFields \cup VariantFields(item.members.type) \subseteq DOMAIN item.members)
  \/ \E k \in TextFields \cap DOMAIN item.members : item.members[k] = NotAString

HoldsMalformed(f) ==
  /\ f.exists
  /\ \/ ~f.parses
     \/ /\ f.value.json = "array"
        /\ \E i \in DOMAIN f.value.items : Malformed(f.value.items[i])

(* C6: load_from_file of a file that does not parse, or whose record list  *)
(* holds a malformed record, raises InvalidProductDataError and nothing    *)
(* else; it never returns normally.                                        *)
LoadRejectsMalformed ==
  (lastOp.op = "load_from_file" /\ HoldsMalformed(file)) =>
     err = "InvalidProductDataError"

(* A record load_from_file stops at: no object, or one without its type    *)
(* tag, with an unrecognized tag, without a required field, or whose       *)
(* product_id cannot be a dict key.                                        *)
Refused(item) ==
  \/ item.json # "object"
  \/ "type" \notin DOMAIN item.members
  \/ item.members.type \notin Types
  \/ ~(BaseFields \cup VariantFields(item.members.type) \subseteq DOMAIN item.members)
  \/ item.members.product_id = NotAString

\* The product p is the one a record describes.
Denotes(item, p) ==
  LET m == item.members IN
  /\ p.class = m.type
  /\ p._product_id = m.product_id
  /\ p._name = m.name
  /\ p._price = m.price
  /\ p._quantity_in_stock = m.quantity_in_stock
  /\ DOMAIN p = {"class", "_product_id", "_name", "_price", "_quantity_in_stock"}
                  \cup VariantFields(m.type)
  /\ \A k \in VariantFields(m.type) : p[k] = m[k]

\* The place of the first record the load stops at, or one past the last record.
StopsAt(items) ==
  IF \E i \in DOMAIN items : Refused(items[i])
    THEN CHOOSE i \in DOMAIN items :
           Refused(items[i]) /\ \A j \in 1 .. (i - 1) : ~Refused(items[j])
    ELSE Len(items) + 1

(* C9: load_from_file merges the records into the store it is called on,   *)
(* in file order: for every id, the product held afterwards is the one the *)
(* last record of that id describes, among the records before the first    *)
(* one the load stops at, and the product held before when no such record  *)
(* has that id.  The load raises exactly when it stopped at a record; the  *)
(* records before it stay merged, and that record and the later ones       *)
(* change nothing.                                                         *)
MergeContract ==
  [][(/\ lastOp'.op = "load_from_file"
      /\ file.exists /\ file.parses /\ file.value.json = "array") =>
       LET items == file.value.items
           k == StopsAt(items)
           of(id) == {j \in 1 .. (k - 1) : items[j].members.product_id = id}
           last(id) == CHOOSE j \in of(id) : \A i \in of(id) : i <= j
           merged == {items[j].members.product_id : j \in 1 .. (k - 1)}
       IN  /\ (err' = "none") <=> (k = Len(items) + 1)
           /\ Keys(products') = Keys(products) \cup merged
           /\ \A id \in Keys(products') :
                IF id \in merged
                  THEN Denotes(items[last(id)], Get(products', id))
                  ELSE Get(products', id) = Get(products, id)]_vars

(* C9's case: a load into an empty store stopped at the second record and  *)
(* left the product of the first in the store.                             *)
MergedBeforeFailure ==
  /\ lastOp.op = "load_from_file"
  /\ lastOp.fresh
  /\ err # "none"
  /\ file.exists /\ file.parses /\ file.value.json = "array"
  /\ StopsAt(file.value.items) = 2
  /\ Len(products) = 1
  /\ Denotes(file.value.items[1], products[1])

(* C10: in the menu loop every exception raised while handling a choice   *)
(* is caught and printed as an "Error:" line, and the menu is shown again; *)
(* the loop ends only on the choice "0"; a choice that is not on the menu  *)
(* and a product type that is not one of the three change neither the      *)
(* store nor the file.                                                     *)
MenuLoopContract ==
  [][lastOp'.op = "choice" =>
       /\ pc' \in {"menu", "exited"}
       /\ (pc' = "exited" => lastOp'.choice = "0")
       /\ (err' # "none" => pc' = "menu" /\ out' = ErrorLine(err'))
       /\ (lastOp'.choice \notin {"0", "1", "2", "3", "4", "5", "6", "7", "8", "9"} =>
             /\ products' = products /\ file' = file
             /\ err' = "none" /\ out' = Text("Invalid choice."))
       /\ ((/\ lastOp'.choice = "1"
            /\ lower(strip(lastOp'.in.ptype)) \notin {"electronics", "grocery", "clothing"}) =>
             products' = products /\ file' = file)
       /\ (out' \in {Text("Invalid choice."), Text("Invalid product type!")} =>
             products' = products /\ file' = file)]_vars

(* C10's case: a quantity that is no number was typed for a sale; the      *)
(* ValueError was printed and the menu is up again.                        *)
ConversionErrorShown ==
  /\ lastOp.op = "choice"
  /\ lastOp.choice = "2"
  /\ err = "ValueError"
  /\ out = ErrorLine("ValueError")
  /\ pc = "menu"
  /\ products # <<>>

====
